---------------------------- MODULE Spec2Model ----------------------------
(* Model of three application services of the Oppia backend:                *)
(*   core/domain/email_manager.py        (email manager)                    *)
(*   extensions/answer_summarizers/models.py (answer calculations)          *)
(*   core/domain/exp_jobs_one_off.py     (one-off exploration jobs)         *)
(* Each service has its own specification (SpecEmail, SpecCalc and         *)
(* SpecElements, SpecJobs and SpecFirstPublished); the variables of the     *)
(* other services keep their initial values.                                *)
EXTENDS Integers, Sequences, FiniteSets, TLC

VARIABLES
    mailLog,      \* calls accepted by email_services.send_mail, in order
    sentEmails,   \* committed SentEmailModel entities, in creation order
    errorLog,     \* number of log_new_error / logging.error calls so far
    emailCalls,   \* number of email-manager calls made so far
    last,         \* the last email-manager call: inputs, outcome, snapshots
    state_answers,   \* the StateAnswers entity a calculation is run on
    calc_output,     \* the StateAnswersCalcOutput of the last calculation
    explorations,    \* the datastore: exploration id -> stored ExplorationModel
    exp_updates,     \* the exp_services.update_exploration calls persisted
    job_errors,      \* number of logging.error calls made by job steps
    job_calls,       \* number of map steps run so far
    last_map,        \* the last map step: job, entity, outcome, emitted pairs
    rights_snapshots,      \* the ExplorationRightsSnapshotContentModel entities
    mapped_snapshots,      \* ids of the snapshots the map step has processed
    shuffled,              \* key -> the stringified values yielded for it
    reduced_keys,          \* the keys the reduce step has processed
    first_published_msec   \* exploration id -> <<msec>>, or <<>> for None

emailVars == <<mailLog, sentEmails, errorLog, emailCalls, last>>

calcVars == <<state_answers, calc_output>>

jobVars == <<explorations, exp_updates, job_errors, job_calls, last_map>>

firstPublishedVars ==
    <<rights_snapshots, mapped_snapshots, shuffled, reduced_keys,
      first_published_msec>>

vars == <<emailVars, calcVars, jobVars, firstPublishedVars>>

(***************************************************************************)
(* Bounds of the model.                                                    *)
(***************************************************************************)
MaxEmailCalls == 2
MaxRetries == 1
MaxAnswers == 7
MaxJobCalls == 2
MaxSchemaVersion == 3
MaxSnapshots == 2
MaxSetAnswers == 3
MinCreatedOn == 9

(***************************************************************************)
(* email_manager.py: constants                                             *)
(***************************************************************************)
INTENT_SIGNUP == "signup"
INTENT_DAILY_BATCH == "daily_batch"
INTENT_MARKETING == "marketing"
INTENT_PUBLICIZE_EXPLORATION == "publicize_exploration"
INTENT_UNPUBLISH_EXPLORATION == "unpublish_exploration"
INTENT_DELETE_EXPLORATION == "delete_exploration"

\* An intent string that no table of the module knows.
INTENT_UNKNOWN == "bogus_intent"

Intents ==
    {INTENT_SIGNUP, INTENT_DAILY_BATCH, INTENT_MARKETING,
     INTENT_PUBLICIZE_EXPLORATION, INTENT_UNPUBLISH_EXPLORATION,
     INTENT_DELETE_EXPLORATION, INTENT_UNKNOWN}

SYSTEM_COMMITTER_ID == "uid_system"

UserIds == {SYSTEM_COMMITTER_ID, "uid_admin", "uid_mod", "uid_user"}

RecipientIds == {"uid_user"}

\* rights_manager.Actor(x).is_admin() / is_moderator()
AdminIds == {"uid_admin"}

ModeratorIds == {"uid_mod", "uid_admin"}

IsAdmin(x) == x \in AdminIds

IsModerator(x) == x \in ModeratorIds

_PLACEHOLDER_SUBJECT == "THIS IS A PLACEHOLDER."

\* HTML is a sequence of tokens: text tokens and tag tokens.
_PLACEHOLDER_HTML_BODY ==
    <<"THIS IS A ", "<b>", "PLACEHOLDER", "</b>", " AND SHOULD BE REPLACED.">>

EMAIL_FOOTER ==
    <<"You can unsubscribe from these emails from the ", "<a>",
      "Preferences", "</a>", " page.">>

EMAIL_SENDER_NAME == "Site Admin"

SYSTEM_EMAIL_ADDRESS == "system@example.com"

\* The default value of each of the four email-content config properties.
DefaultEmailContent ==
    [subject |-> _PLACEHOLDER_SUBJECT, html_body |-> _PLACEHOLDER_HTML_BODY]

\* Values an admin may have stored in an email-content config property.
ConfigSubjects == {_PLACEHOLDER_SUBJECT, "Custom subject"}

ConfigBodies == {_PLACEHOLDER_HTML_BODY, <<"Custom ", "<b>", "body", "</b>">>}

EmailContents == [subject : ConfigSubjects, html_body : ConfigBodies]

\* Subjects and bodies a caller may pass.
EmailSubjects == {"Subject"}

EmailBodies ==
    {<<"<p>", "One", "</p>", "<p>", "Two", "<br>", "Three", "</p>">>,
     <<"Bad ", "<script>", "x">>}

(***************************************************************************)
(* extensions/answer_summarizers/models.py                                 *)
(***************************************************************************)
\* Answer values are opaque and only compared for equality.  The batches
\* drawn introduce them in the order of AnswerOrder (any other batch is one
\* of these with its values renamed).
AnswerOrder == <<"a", "b", "c", "d", "e", "f">>

AnswerValues == {AnswerOrder[i] : i \in 1..Len(AnswerOrder)}

SeqValues(s) == {s[i] : i \in 1..Len(s)}

\* The values that may follow batch s: one already in it, or the next new one.
NextAnswers(s) ==
    LET k == Cardinality(SeqValues(s))
    IN  SeqValues(s) \cup (IF k < Len(AnswerOrder) THEN {AnswerOrder[k + 1]} ELSE {})

RECURSIVE BatchesOfLen(_)
BatchesOfLen(n) ==
    IF n = 0 THEN {<<>>}
    ELSE UNION {{Append(s, v) : v \in NextAnswers(s)} : s \in BatchesOfLen(n - 1)}

\* The batch of the documented example: [a,a,a,b,b,c,d,e,f].
ExampleBatch == <<"a", "a", "a", "b", "b", "c", "d", "e", "f">>

AnswerBatches ==
    UNION {BatchesOfLen(n) : n \in 0..MaxAnswers} \cup {ExampleBatch}

\* The orders in which a dict may list the keys S: Python 2 lists the items
\* of a dict (a Counter) in an arbitrary order that is not the insertion order.
RECURSIVE KeyOrders(_)
KeyOrders(S) ==
    IF S = {} THEN {<<>>}
    ELSE UNION {{<<x>> \o rest : rest \in KeyOrders(S \ {x})} : x \in S}

\* Mutant: a Counter that only records which values are present.
CounterOfPresence(answer_values) ==
    [a \in SeqValues(answer_values) |-> 1]

\* collections.Counter(answer_values): counts one element after another.
RECURSIVE Counter(_)
Counter(answer_values) ==
    IF answer_values = <<>> THEN <<>>
    ELSE LET n == Len(answer_values)
             c == Counter(SubSeq(answer_values, 1, n - 1))
             x == answer_values[n]
         IN  IF x \in DOMAIN c
             THEN [c EXCEPT ![x] = @ + 1]
             ELSE [k \in DOMAIN c \cup {x} |-> IF k = x THEN 1 ELSE c[k]]

\* counter.items(), the keys listed in the order key_order.
Items(counter, key_order) ==
    [i \in 1..Len(key_order) |-> <<key_order[i], counter[key_order[i]]>>]

\* Insert item x behind the last item of the sorted list whose count is not
\* smaller: equal counts keep their order.
RECURSIVE InsertByCountDesc(_, _)
InsertByCountDesc(sorted, x) ==
    IF sorted = <<>> THEN <<x>>
    ELSE IF Head(sorted)[2] >= x[2]
         THEN <<Head(sorted)>> \o InsertByCountDesc(Tail(sorted), x)
         ELSE <<x>> \o sorted

\* Mutant: reverse=True left out of the sort.
RECURSIVE SortedByCountAsc(_)
SortedByCountAsc(items) ==
    IF items = <<>> THEN <<>>
    ELSE LET rest == SortedByCountAsc(SubSeq(items, 1, Len(items) - 1))
             x == items[Len(items)]
             below == SelectSeq(rest, LAMBDA y : y[2] <= x[2])
             above == SelectSeq(rest, LAMBDA y : y[2] > x[2])
         IN  below \o <<x>> \o above

\* sorted(items, key=lambda x: x[1], reverse=True): a stable sort.
RECURSIVE SortedByCountDesc(_)
SortedByCountDesc(items) ==
    IF items = <<>> THEN <<>>
    ELSE InsertByCountDesc(
             SortedByCountDesc(SubSeq(items, 1, Len(items) - 1)),
             items[Len(items)])

\* items[:5]
FirstFive(items) == SubSeq(items, 1, IF Len(items) < 5 THEN Len(items) ELSE 5)

\* for item in pairs: calculation_output.append({'answer': .., 'frequency': ..})
CalculationOutput(pairs) ==
    [i \in 1..Len(pairs) |-> [answer |-> pairs[i][1], frequency |-> pairs[i][2]]]

AnswerValuesOf(entity) == entity.answers_list

\* stats_domain.StateAnswersCalcOutput(...)
StateAnswersCalcOutput(entity, calculation_id, calculation_output) ==
    [exploration_id |-> entity.exploration_id,
     exploration_version |-> entity.exploration_version,
     state_name |-> entity.state_name,
     calculation_id |-> calculation_id,
     calculation_output |-> calculation_output]

\* AnswerFrequencies.calculate_from_state_answers_entity
AnswerFrequencies(entity, key_order) ==
    StateAnswersCalcOutput(
        entity, "AnswerFrequencies",
        CalculationOutput(Items(Counter(AnswerValuesOf(entity)), key_order)))

\* Top5AnswerFrequencies.calculate_from_state_answers_entity
Top5AnswerFrequencies(entity, key_order) ==
    StateAnswersCalcOutput(
        entity, "Top5AnswerFrequencies",
        CalculationOutput(
            FirstFive(SortedByCountDesc(
                Items(Counter(AnswerValuesOf(entity)), key_order)))))

NoOutput ==
    [exploration_id |-> "", exploration_version |-> 0, state_name |-> "",
     calculation_id |-> "none", calculation_output |-> <<>>]

StateAnswersEntity(answers) ==
    [exploration_id |-> "exp0", exploration_version |-> 1,
     state_name |-> "Introduction", answers_list |-> answers]

CalcIdle ==
    /\ state_answers = StateAnswersEntity(<<>>)
    /\ calc_output = NoOutput

\* The job runs a calculation on an entity it has no output for yet.
RunAnswerFrequencies ==
    /\ calc_output = NoOutput
    /\ \E key_order \in KeyOrders(SeqValues(state_answers.answers_list)) :
          calc_output' = AnswerFrequencies(state_answers, key_order)
    /\ UNCHANGED <<state_answers, emailVars, jobVars, firstPublishedVars>>

RunTop5AnswerFrequencies ==
    /\ calc_output = NoOutput
    /\ \E key_order \in KeyOrders(SeqValues(state_answers.answers_list)) :
          calc_output' = Top5AnswerFrequencies(state_answers, key_order)
    /\ UNCHANGED <<state_answers, emailVars, jobVars, firstPublishedVars>>

\* --- FrequencyCommonlySubmittedElements ---------------------------------
\* A set answer is stored as the string of its list of elements, such as
\* [u'abc', u'www'].  Strings are sequences of one-character strings here.
\* The elements as they are written in such a string; none holds ', ',
\* '[' or ']', one ends with a comma and one starts with a blank.
ElementOrder == << <<"x">>, <<"y", ",">>, <<" ", "z">> >>

\* Eleven more elements, for batches with more than ten distinct elements.
ManyElementsOrder ==
    << <<"a">>, <<"b">>, <<"c">>, <<"d">>, <<"e">>, <<"f">>,
       <<"g">>, <<"h">>, <<"i">>, <<"j">>, <<"k">> >>

\* The sublists of a list: the sets over its elements, listed in its order.
RECURSIVE Sublists(_)
Sublists(l) ==
    IF l = <<>> THEN {<<>>}
    ELSE LET rest == Sublists(Tail(l))
         IN  rest \cup {<<Head(l)>> \o r : r \in rest}

\* The sets of elements that are submitted as answers.
AnswerSets ==
    Sublists(ElementOrder) \cup
    {SubSeq(ManyElementsOrder, 1, n) : n \in 1..Len(ManyElementsOrder)}

\* sep.join(strings)
RECURSIVE join(_, _)
join(sep, strings) ==
    IF strings = <<>> THEN <<>>
    ELSE IF Len(strings) = 1 THEN strings[1]
    ELSE strings[1] \o sep \o join(sep, Tail(strings))

\* The stored answer of a set: '[' + ', '.join(elements) + ']'.
StringifiedSet(elements) == <<"[">> \o join(<<",", " ">>, elements) \o <<"]">>

\* A batch with eleven distinct elements: all of them are submitted once,
\* the first nine twice, the first six three times, the first three four
\* times.
ManyElementsBatch ==
    <<StringifiedSet(ManyElementsOrder),
      StringifiedSet(SubSeq(ManyElementsOrder, 1, 9)),
      StringifiedSet(SubSeq(ManyElementsOrder, 1, 6)),
      StringifiedSet(SubSeq(ManyElementsOrder, 1, 3))>>

RECURSIVE SeqsOfLen(_, _)
SeqsOfLen(S, n) ==
    IF n = 0 THEN {<<>>}
    ELSE {Append(s, x) : s \in SeqsOfLen(S, n - 1), x \in S}

SetAnswerBatches ==
    UNION {SeqsOfLen({StringifiedSet(l) : l \in Sublists(ElementOrder)}, n) :
              n \in 0..MaxSetAnswers}
    \cup {ManyElementsBatch}

\* s.replace(old, '') for a one-character old.
replace(s, old) == SelectSeq(s, LAMBDA c : c # old)

\* s.find(sep): the 1-based position of the first sep in s, 0 for none.
find(s, sep) ==
    LET hits == {i \in 1..(Len(s) - Len(sep) + 1) :
                    SubSeq(s, i, i + Len(sep) - 1) = sep}
    IN  IF hits = {} THEN 0 ELSE CHOOSE i \in hits : \A j \in hits : i <= j

\* s.split(sep)
RECURSIVE split(_, _)
split(s, sep) ==
    LET i == find(s, sep)
    IN  IF i = 0 THEN <<s>>
        ELSE <<SubSeq(s, 1, i - 1)>> \o split(SubSeq(s, i + Len(sep), Len(s)), sep)

\* setstring.replace('[','').replace(']','').split(', ')
EltsThisSet(setstring) ==
    split(replace(replace(setstring, "["), "]"), <<",", " ">>)

\* for setstring in answer_values: list_of_all_elements += elts_this_set
RECURSIVE ListOfAllElements(_)
ListOfAllElements(answer_values) ==
    IF answer_values = <<>> THEN <<>>
    ELSE EltsThisSet(Head(answer_values)) \o ListOfAllElements(Tail(answer_values))

\* if len(pairs) > 10: pairs = pairs[:10]
FirstTen(items) == IF Len(items) > 10 THEN SubSeq(items, 1, 10) ELSE items

\* The sort is stable, so its result depends on the order of the dict only
\* among keys of equal count: the orders that list the keys S by descending
\* count give every result the sort can have.
RECURSIVE KeyOrdersByCount(_, _)
KeyOrdersByCount(counter, S) ==
    IF S = {} THEN {<<>>}
    ELSE UNION {{<<x>> \o rest : rest \in KeyOrdersByCount(counter, S \ {x})} :
                   x \in {y \in S : \A z \in S : counter[z] <= counter[y]}}

\* FrequencyCommonlySubmittedElements.calculate_from_state_answers_entity
FrequencyCommonlySubmittedElements(entity, key_order) ==
    StateAnswersCalcOutput(
        entity, "FrequencyCommonlySubmittedElements",
        CalculationOutput(
            FirstTen(SortedByCountDesc(
                Items(Counter(ListOfAllElements(AnswerValuesOf(entity))),
                      key_order)))))

RunFrequencyCommonlySubmittedElements ==
    /\ calc_output = NoOutput
    /\ LET counter == Counter(ListOfAllElements(AnswerValuesOf(state_answers)))
       IN  \E key_order \in KeyOrdersByCount(counter, DOMAIN counter) :
              calc_output' = FrequencyCommonlySubmittedElements(state_answers, key_order)
    /\ UNCHANGED <<state_answers, emailVars, jobVars, firstPublishedVars>>

(***************************************************************************)
(* html_cleaner (not among the source files): clean() drops the tags that  *)
(* are not whitelisted, strip_html_tags() drops every tag.                 *)
(***************************************************************************)
WhitelistedTags == {"<b>", "</b>", "<a>", "</a>", "<p>", "</p>", "<br>", "<br/>"}

AllTags == WhitelistedTags \cup {"<script>", "</script>"}

IsWhitelistedOrText(tok) == tok \notin AllTags \/ tok \in WhitelistedTags

IsText(tok) == tok \notin AllTags

clean(html) == SelectSeq(html, IsWhitelistedOrText)

strip_html_tags(html) == SelectSeq(html, IsText)

\* user_services.get_email_from_user_id / get_user_settings(..).username
get_email_from_user_id(user_id) == <<user_id, "@example.com">>

\* The username is a text token; the model names each user by its id.
Username(user_id) == user_id

(***************************************************************************)
(* Python's  template % args : every %s of the template takes one          *)
(* argument; a different number of arguments raises TypeError.  An operand *)
(* that is not a tuple counts as one argument.                             *)
(***************************************************************************)
IsSlot(tok) == tok = "%s"

SlotCount(template) == Len(SelectSeq(template, IsSlot))

RECURSIVE Substitute(_, _)
Substitute(template, args) ==
    IF template = <<>> THEN <<>>
    ELSE IF IsSlot(Head(template))
         THEN Head(args) \o Substitute(Tail(template), Tail(args))
         ELSE <<Head(template)>> \o Substitute(Tail(template), args)

PyFormat(template, args) ==
    IF SlotCount(template) # Len(args)
    THEN [raised |-> TRUE, value |-> <<>>]
    ELSE [raised |-> FALSE, value |-> Substitute(template, args)]

(***************************************************************************)
(* _send_email: sender validation                                          *)
(***************************************************************************)
\* SENDER_VALIDATORS: the intents it has a validator for.
ValidatedIntents ==
    {INTENT_SIGNUP, INTENT_DAILY_BATCH, INTENT_MARKETING,
     INTENT_PUBLICIZE_EXPLORATION, INTENT_UNPUBLISH_EXPLORATION,
     INTENT_DELETE_EXPLORATION}

\* SENDER_VALIDATORS[intent](sender_id), for intent \in ValidatedIntents
SENDER_VALIDATORS(intent, sender_id) ==
    CASE intent = INTENT_SIGNUP -> sender_id = SYSTEM_COMMITTER_ID
      [] intent = INTENT_DAILY_BATCH -> sender_id = SYSTEM_COMMITTER_ID
      [] intent = INTENT_MARKETING -> IsAdmin(sender_id)
      [] intent = INTENT_PUBLICIZE_EXPLORATION -> IsModerator(sender_id)
      [] intent = INTENT_UNPUBLISH_EXPLORATION -> IsModerator(sender_id)
      [] intent = INTENT_DELETE_EXPLORATION -> IsModerator(sender_id)

\* Mutant: the validator of a known intent is never consulted.
require_sender_id_is_valid_intent_only(intent, sender_id) ==
    IF intent \notin ValidatedIntents THEN "InvalidIntent" ELSE ""

\* _require_sender_id_is_valid: "" when it returns, else the error raised.
\* The invalid-sender case also calls logging.error once.
_require_sender_id_is_valid(intent, sender_id) ==
    IF intent \notin ValidatedIntents THEN "InvalidIntent"
    ELSE IF ~SENDER_VALIDATORS(intent, sender_id) THEN "InvalidSender"
    ELSE ""

(***************************************************************************)
(* _send_email: body check and plaintext rendering                         *)
(***************************************************************************)
\* Mutant: the cleaned body is never compared with the original.
BodyIsCleanUnchecked(email_html_body) == TRUE

\* cleaned_html_body != email_html_body  (negated)
BodyIsClean(email_html_body) == clean(email_html_body) = email_html_body

\* .replace('<br/>', '\n').replace('<br>', '\n').replace('</p><p>', '</p>\n<p>')
RECURSIVE RawPlaintext(_)
RawPlaintext(html) ==
    IF html = <<>> THEN <<>>
    ELSE IF Head(html) \in {"<br/>", "<br>"}
         THEN <<"\n">> \o RawPlaintext(Tail(html))
    ELSE IF Head(html) = "</p>" /\ Len(html) > 1 /\ html[2] = "<p>"
         THEN <<"</p>", "\n">> \o RawPlaintext(Tail(html))
    ELSE <<Head(html)>> \o RawPlaintext(Tail(html))

CleanedPlaintext(cleaned_html_body) ==
    strip_html_tags(RawPlaintext(cleaned_html_body))

SenderEmail == <<EMAIL_SENDER_NAME, SYSTEM_EMAIL_ADDRESS>>

\* The arguments of email_services.send_mail.
MailCall(recipient_id, email_subject, cleaned_html_body) ==
    [sender_email |-> SenderEmail,
     recipient_email |-> get_email_from_user_id(recipient_id),
     subject |-> email_subject,
     plaintext_body |-> CleanedPlaintext(cleaned_html_body),
     html_body |-> cleaned_html_body]

\* The arguments of email_models.SentEmailModel.create (the sent time,
\* datetime.utcnow(), is left out: no operation reads it).
SentEmailRecord(recipient_id, sender_id, intent, email_subject, cleaned_html_body) ==
    [recipient_id |-> recipient_id,
     recipient_email |-> get_email_from_user_id(recipient_id),
     sender_id |-> sender_id,
     sender_email |-> SenderEmail,
     intent |-> intent,
     subject |-> email_subject,
     html_body |-> cleaned_html_body]

(***************************************************************************)
(* _send_email_in_transaction, and the transaction that runs it.           *)
(* A transaction txn holds the mails delivered so far (the mail service is *)
(* not transactional), the datastore as committed, the writes this attempt *)
(* has buffered, and whether the function raised.                          *)
(***************************************************************************)
\* Mutant: a failure of send_mail is swallowed and the record still written.
send_email_in_transaction_swallowing(txn, mail, record, mail_ok) ==
    IF ~mail_ok
    THEN [txn EXCEPT !.writes = Append(@, record)]
    ELSE [txn EXCEPT !.mails = Append(@, mail),
                     !.writes = Append(@, record)]

\* Mutant: the record is written outside the transaction, straight to the
\* datastore.
send_email_in_transaction_direct_write(txn, mail, record, mail_ok) ==
    IF ~mail_ok
    THEN [txn EXCEPT !.raised = TRUE]
    ELSE [txn EXCEPT !.mails = Append(@, mail),
                     !.store = Append(@, record)]

\* One attempt of _send_email_in_transaction.  mail_ok: send_mail returns.
_send_email_in_transaction(txn, mail, record, mail_ok) ==
    IF ~mail_ok
    THEN [txn EXCEPT !.raised = TRUE]
    ELSE [txn EXCEPT !.mails = Append(@, mail),
                     !.writes = Append(@, record)]

\* What the environment does to a transaction: `conflicts` attempts end in
\* a failed commit and are retried; in the last attempt send_mail returns
\* or raises (mail_ok) and, when the function returns, the commit succeeds
\* or fails for good (commit_ok).
TxnOutcomes ==
    [conflicts : 0..MaxRetries, mail_ok : BOOLEAN, commit_ok : BOOLEAN]

\* transaction_services.run_in_transaction(_send_email_in_transaction):
\* the function runs again after a failed commit; a commit applies the
\* buffered writes; an exception of the function, or a commit that fails
\* for good, drops them and is raised to the caller.
RECURSIVE run_in_transaction(_, _, _, _, _)
run_in_transaction(mails, store, mail, record, outcome) ==
    LET txn == _send_email_in_transaction(
                   [mails |-> mails, store |-> store, writes |-> <<>>,
                    raised |-> FALSE],
                   mail, record,
                   outcome.conflicts > 0 \/ outcome.mail_ok)
    IN  IF txn.raised
        THEN [mails |-> txn.mails, store |-> txn.store, error |-> "MailError"]
        ELSE IF outcome.conflicts > 0
        THEN run_in_transaction(
                 txn.mails, txn.store, mail, record,
                 [outcome EXCEPT !.conflicts = @ - 1])
        ELSE IF outcome.commit_ok
        THEN [mails |-> txn.mails, store |-> txn.store \o txn.writes,
              error |-> ""]
        ELSE [mails |-> txn.mails, store |-> txn.store,
              error |-> "TransactionFailed"]

(***************************************************************************)
(* _send_email.  w is the world before the call: [mails, store, errors].   *)
(* The result is the world after it plus how the call ended:               *)
(* error = "" when it returned, else the exception.                        *)
(***************************************************************************)
_send_email(w, recipient_id, sender_id, intent, email_subject, email_html_body, outcome) ==
    LET invalid == _require_sender_id_is_valid(intent, sender_id)
    IN  IF invalid = "InvalidIntent"
        THEN [mails |-> w.mails, store |-> w.store, errors |-> w.errors,
              error |-> invalid]
        ELSE IF invalid = "InvalidSender"
        THEN [mails |-> w.mails, store |-> w.store, errors |-> w.errors + 1,
              error |-> invalid]
        ELSE IF ~BodyIsClean(email_html_body)
        THEN [mails |-> w.mails, store |-> w.store, errors |-> w.errors + 1,
              error |-> ""]
        ELSE LET cleaned_html_body == clean(email_html_body)
                 r == run_in_transaction(
                          w.mails, w.store,
                          MailCall(recipient_id, email_subject, cleaned_html_body),
                          SentEmailRecord(recipient_id, sender_id, intent,
                                          email_subject, cleaned_html_body),
                          outcome)
             IN  [mails |-> r.mails, store |-> r.store, errors |-> w.errors,
                  error |-> r.error]

\* Whether a call of _send_email gets as far as the transaction.  The
\* actions draw the transaction's outcome only when it does.
ReachesTransaction(intent, sender_id, email_html_body) ==
    /\ _require_sender_id_is_valid(intent, sender_id) = ""
    /\ BodyIsClean(email_html_body)

OutcomesIf(reached) ==
    IF reached
    THEN TxnOutcomes
    ELSE {[conflicts |-> 0, mail_ok |-> TRUE, commit_ok |-> TRUE]}

World == [mails |-> mailLog, store |-> sentEmails, errors |-> errorLog]

\* The record of a call in `last`.
CallRecord(op, recipient_id, sender_id, intent, subject, body, content, r) ==
    [op |-> op, recipient_id |-> recipient_id, sender_id |-> sender_id,
     intent |-> intent, subject |-> subject, body |-> body,
     content |-> content, error |-> r.error,
     mailsBefore |-> mailLog, sentBefore |-> sentEmails,
     errorsBefore |-> errorLog]

NoCall ==
    [op |-> "none", recipient_id |-> "", sender_id |-> "", intent |-> "",
     subject |-> "", body |-> <<>>, content |-> DefaultEmailContent,
     error |-> "", mailsBefore |-> <<>>, sentBefore |-> <<>>,
     errorsBefore |-> 0]

Apply(r, call) ==
    /\ mailLog' = r.mails
    /\ sentEmails' = r.store
    /\ errorLog' = r.errors
    /\ emailCalls' = emailCalls + 1
    /\ last' = call
    /\ UNCHANGED <<calcVars, jobVars, firstPublishedVars>>

\* A direct call of _send_email.
CallSendEmail ==
    /\ emailCalls < MaxEmailCalls
    /\ \E recipient_id \in RecipientIds, sender_id \in UserIds,
          intent \in Intents, subject \in EmailSubjects,
          body \in EmailBodies :
          \E outcome \in OutcomesIf(ReachesTransaction(intent, sender_id, body)) :
          LET r == _send_email(World, recipient_id, sender_id, intent,
                             subject, body, outcome)
          IN  Apply(r, CallRecord("_send_email", recipient_id, sender_id,
                                  intent, subject, body,
                                  DefaultEmailContent, r))

(***************************************************************************)
(* Templated sends                                                         *)
(***************************************************************************)
\* Mutant: the content counts as set once any one key differs.
EmailContentIsSetAnyKey(value) ==
    \E key \in {"subject", "html_body"} : value[key] # DefaultEmailContent[key]

\* for key, content in X.value.iteritems():
\*     if content == X.default_value[key]: ...      (negated: no key matches)
EmailContentIsSet(value) ==
    \A key \in {"subject", "html_body"} : value[key] # DefaultEmailContent[key]

\* 'Hi %s,<br><br>%s<br><br>%s'
SIGNUP_TEMPLATE ==
    <<"Hi ", "%s", ",", "<br>", "<br>", "%s", "<br>", "<br>", "%s">>

\* 'Hi %s,<br><br>%s<br><br>Thanks,<br>%s<br><br>%s'
MODERATOR_TEMPLATE ==
    <<"Hi ", "%s", ",", "<br>", "<br>", "%s", "<br>", "<br>", "Thanks,",
      "<br>", "%s", "<br>", "<br>", "%s">>

\* The operand of % in send_post_signup_email: a parenthesised 3-tuple.
SignupFormatArgs(username, html_body, footer) ==
    << <<username>>, html_body, footer >>

\* The operand of % in send_moderator_action_email.  The operands are not
\* parenthesised and % binds tighter than the comma: the template is
\* formatted with the recipient's username alone.
ModeratorFormatArgs(recipient_username, email_body, sender_username, footer) ==
    << <<recipient_username>> >>

\* send_post_signup_email(user_id), with `value` the content read from
\* SIGNUP_EMAIL_CONTENT.
send_post_signup_email(w, user_id, value, outcome) ==
    IF ~EmailContentIsSet(value)
    THEN [mails |-> w.mails, store |-> w.store, errors |-> w.errors + 1,
          error |-> ""]
    ELSE LET f == PyFormat(SIGNUP_TEMPLATE,
                           SignupFormatArgs(Username(user_id),
                                            value.html_body, EMAIL_FOOTER))
         IN  IF f.raised
             THEN [mails |-> w.mails, store |-> w.store,
                   errors |-> w.errors, error |-> "TypeError"]
             ELSE _send_email(w, user_id, SYSTEM_COMMITTER_ID, INTENT_SIGNUP,
                            value.subject, f.value, outcome)

\* _POST_MODERATOR_ACTION_EMAIL_CONFIGS: its keys.
ModeratorActionIntents ==
    {INTENT_PUBLICIZE_EXPLORATION, INTENT_UNPUBLISH_EXPLORATION,
     INTENT_DELETE_EXPLORATION}

\* require_valid_intent / _get_email_config: whether the intent has a config.
require_valid_intent(intent) == intent \in ModeratorActionIntents

\* send_moderator_action_email, with `value` the content read from the
\* intent's config property.
send_moderator_action_email(w, sender_id, recipient_id, intent, email_subject, email_body, value, outcome) ==
    IF ~require_valid_intent(intent)
    THEN [mails |-> w.mails, store |-> w.store, errors |-> w.errors,
          error |-> "UnrecognizedIntent"]
    ELSE IF ~EmailContentIsSet(value)
    THEN [mails |-> w.mails, store |-> w.store, errors |-> w.errors,
          error |-> "ConfigNotSet"]
    ELSE LET f == PyFormat(MODERATOR_TEMPLATE,
                           ModeratorFormatArgs(Username(recipient_id),
                                               email_body,
                                               Username(sender_id),
                                               EMAIL_FOOTER))
         IN  IF f.raised
             THEN [mails |-> w.mails, store |-> w.store,
                   errors |-> w.errors, error |-> "TypeError"]
             ELSE _send_email(w, recipient_id, sender_id, intent,
                            email_subject, f.value, outcome)

CallSendPostSignupEmail ==
    /\ emailCalls < MaxEmailCalls
    /\ \E user_id \in RecipientIds, value \in EmailContents :
          \E outcome \in OutcomesIf(EmailContentIsSet(value)) :
          LET r == send_post_signup_email(World, user_id, value, outcome)
          IN  Apply(r, CallRecord("send_post_signup_email", user_id,
                                  SYSTEM_COMMITTER_ID, INTENT_SIGNUP,
                                  value.subject, value.html_body, value, r))

CallSendModeratorActionEmail ==
    /\ emailCalls < MaxEmailCalls
    /\ \E sender_id \in UserIds, recipient_id \in RecipientIds,
          intent \in Intents, subject \in EmailSubjects,
          body \in EmailBodies, value \in EmailContents :
          \E outcome \in OutcomesIf(
                 /\ require_valid_intent(intent)
                 /\ EmailContentIsSet(value)
                 /\ ~PyFormat(MODERATOR_TEMPLATE,
                              ModeratorFormatArgs(
                                  Username(recipient_id), body,
                                  Username(sender_id), EMAIL_FOOTER)).raised) :
          LET r == send_moderator_action_email(World, sender_id, recipient_id,
                                            intent, subject, body, value,
                                            outcome)
          IN  Apply(r, CallRecord("send_moderator_action_email",
                                  recipient_id, sender_id, intent, subject,
                                  body,
                                  IF require_valid_intent(intent)
                                  THEN value ELSE DefaultEmailContent,
                                  r))

(***************************************************************************)
(* core/domain/exp_jobs_one_off.py                                         *)
(***************************************************************************)
ExpIds == {"exp1", "exp2"}

\* feconf.CURRENT_EXPLORATION_STATES_SCHEMA_VERSION
CURRENT_EXPLORATION_STATES_SCHEMA_VERSION == MaxSchemaVersion

MIGRATION_BOT_USERNAME == "OppiaMigrationBot"

ACTIVITY_STATUS_PRIVATE == "private"

ACTIVITY_STATUS_PUBLIC == "public"

\* A stored exploration.  content says what its content passes: "valid"
\* passes strict validation, "lenient" only the non-strict one, "invalid"
\* neither; loadable says whether the domain object can be built from it.
ExplorationModels ==
    [deleted : BOOLEAN,
     states_schema_version : 1..CURRENT_EXPLORATION_STATES_SCHEMA_VERSION,
     status : {ACTIVITY_STATUS_PRIVATE, ACTIVITY_STATUS_PUBLIC},
     content : {"valid", "lenient", "invalid"},
     loadable : BOOLEAN]

\* exp_services.get_exploration_from_model / get_exploration_by_id (and
\* rights_manager.get_exploration_rights): whether fetching and building the
\* domain object raises.
LoadRaises(model) == ~model.loadable

\* exploration.validate(strict): "" when it passes, else the message of the
\* utils.ValidationError it raises.
validate(model, strict) ==
    IF model.content = "invalid" THEN "fails non-strict validation"
    ELSE IF strict /\ model.content = "lenient" THEN "fails strict validation"
    ELSE ""

\* exp_services.update_exploration with the migrate-to-latest command: the
\* exploration is loaded (which converts its states to the current schema)
\* and stored back.
update_exploration(store, committer_id, exp_id, commit_cmds) ==
    [store EXCEPT ![exp_id].states_schema_version =
                      CURRENT_EXPLORATION_STATES_SCHEMA_VERSION]

\* The outcome of a map step: the datastore and logs after it, the pairs it
\* yielded and the exception it raised ("" when it returned).
MapOutcome(store, updates, errors, emitted, raised) ==
    [store |-> store, updates |-> updates, errors |-> errors,
     emitted |-> emitted, raised |-> raised]

\* Mutant: the two branches are swapped.
StrictForPrivate(item_status) == item_status = ACTIVITY_STATUS_PRIVATE

\* if exp_rights.status == ACTIVITY_STATUS_PRIVATE: validate()
\* else: validate(strict=True)
StrictFor(item_status) == item_status # ACTIVITY_STATUS_PRIVATE

\* ExplorationValidityJobManager.map(item)
ExplorationValidityJobManager_map(store, updates, errors, exp_id) ==
    LET item == store[exp_id]
    IN  IF item.deleted
        THEN MapOutcome(store, updates, errors, <<>>, "")
        ELSE IF LoadRaises(item)
        THEN MapOutcome(store, updates, errors, <<>>, "LoadError")
        ELSE LET e == validate(item, StrictFor(item.status))
             IN  IF e # ""
                 THEN MapOutcome(store, updates, errors, <<<<exp_id, e>>>>, "")
                 ELSE MapOutcome(store, updates, errors, <<>>, "")

\* Mutant: every stored exploration is written back.
NeedsMigrationAlways(item) == TRUE

\* item.states_schema_version != feconf.CURRENT_EXPLORATION_STATES_SCHEMA_VERSION
NeedsMigration(item) ==
    item.states_schema_version # CURRENT_EXPLORATION_STATES_SCHEMA_VERSION

\* The commit command of the migration.
MigrationCommitCmds(item) ==
    <<[cmd |-> "migrate_states_schema_to_latest_version",
       from_version |-> item.states_schema_version,
       to_version |-> CURRENT_EXPLORATION_STATES_SCHEMA_VERSION]>>

\* Mutant: the except branch is left out, a failed validation propagates.
ExplorationMigrationJobManager_map_uncaught(store, updates, errors, exp_id) ==
    LET item == store[exp_id]
    IN  IF item.deleted
        THEN MapOutcome(store, updates, errors, <<>>, "")
        ELSE IF LoadRaises(item)
        THEN MapOutcome(store, updates, errors, <<>>, "LoadError")
        ELSE IF validate(item, FALSE) # ""
        THEN MapOutcome(store, updates, errors, <<>>, "ValidationError")
        ELSE IF NeedsMigration(item)
        THEN MapOutcome(
                 update_exploration(store, MIGRATION_BOT_USERNAME, exp_id,
                                   MigrationCommitCmds(item)),
                 Append(updates,
                        [committer_id |-> MIGRATION_BOT_USERNAME,
                         exp_id |-> exp_id,
                         commit_cmds |-> MigrationCommitCmds(item)]),
                 errors, <<>>, "")
        ELSE MapOutcome(store, updates, errors, <<>>, "")

\* ExplorationMigrationJobManager.map(item)
ExplorationMigrationJobManager_map(store, updates, errors, exp_id) ==
    LET item == store[exp_id]
    IN  IF item.deleted
        THEN MapOutcome(store, updates, errors, <<>>, "")
        ELSE IF LoadRaises(item)
        THEN MapOutcome(store, updates, errors, <<>>, "LoadError")
        ELSE IF validate(item, FALSE) # ""
        THEN MapOutcome(store, updates, errors + 1, <<>>, "")
        ELSE IF NeedsMigration(item)
        THEN MapOutcome(
                 update_exploration(store, MIGRATION_BOT_USERNAME, exp_id,
                                   MigrationCommitCmds(item)),
                 Append(updates,
                        [committer_id |-> MIGRATION_BOT_USERNAME,
                         exp_id |-> exp_id,
                         commit_cmds |-> MigrationCommitCmds(item)]),
                 errors, <<>>, "")
        ELSE MapOutcome(store, updates, errors, <<>>, "")

NoMap ==
    [job |-> "none", exp_id |-> "", raised |-> "", emitted |-> <<>>,
     storeBefore |-> <<>>, updatesBefore |-> <<>>, errorsBefore |-> 0]

ApplyMap(job, exp_id, r) ==
    /\ explorations' = r.store
    /\ exp_updates' = r.updates
    /\ job_errors' = r.errors
    /\ job_calls' = job_calls + 1
    /\ last_map' = [job |-> job, exp_id |-> exp_id, raised |-> r.raised,
                    emitted |-> r.emitted, storeBefore |-> explorations,
                    updatesBefore |-> exp_updates,
                    errorsBefore |-> job_errors]
    /\ UNCHANGED <<emailVars, calcVars, firstPublishedVars>>

RunValidityMap ==
    /\ job_calls < MaxJobCalls
    /\ \E exp_id \in ExpIds :
          ApplyMap("ExplorationValidityJobManager", exp_id,
                   ExplorationValidityJobManager_map(explorations, exp_updates, job_errors, exp_id))

RunMigrationMap ==
    /\ job_calls < MaxJobCalls
    /\ \E exp_id \in ExpIds :
          ApplyMap("ExplorationMigrationJobManager", exp_id,
                   ExplorationMigrationJobManager_map(explorations, exp_updates, job_errors, exp_id))

JobsIdle ==
    /\ explorations = <<>>
    /\ exp_updates = <<>>
    /\ job_errors = 0
    /\ job_calls = 0
    /\ last_map = NoMap

(***************************************************************************)
(* exp_jobs_one_off.py: ExplorationFirstPublishedOneOffJob.                *)
(* Strings the job takes apart are sequences of one-character strings.     *)
(* Times are whole seconds, and milliseconds whole numbers.                *)
(***************************************************************************)
\* The explorations that have rights snapshots; an id may hold a '-'.
RightsExpIds == {<<"e", "1">>, <<"e", "-", "2">>}

Digits == <<"0", "1", "2", "3", "4", "5", "6", "7", "8", "9">>

DigitValue(c) == CHOOSE d \in 0..9 : Digits[d + 1] = c

\* str(n) of a whole number: its decimal digits.
RECURSIVE str(_)
str(n) ==
    IF n < 10 THEN <<Digits[n + 1]>>
    ELSE str(n \div 10) \o <<Digits[(n % 10) + 1]>>

\* ast.literal_eval of a string of decimal digits.
RECURSIVE literal_eval(_)
literal_eval(s) ==
    IF Len(s) = 0 THEN 0
    ELSE literal_eval(SubSeq(s, 1, Len(s) - 1)) * 10 + DigitValue(s[Len(s)])

\* The id of the snapshot of version v of exploration e: '<e>-<v>'.
SnapshotId(e, v) == e \o <<"-">> \o str(v)

\* The snapshots of one exploration: versions 1..MaxSnapshots, each created
\* later than the one before, at a time that has four or five digits in
\* milliseconds.
SnapshotsOf(e) ==
    {f \in [1..MaxSnapshots ->
               [id : {SnapshotId(e, v) : v \in 1..MaxSnapshots},
                content : [status : {ACTIVITY_STATUS_PRIVATE,
                                     ACTIVITY_STATUS_PUBLIC}],
                created_on : MinCreatedOn..(MinCreatedOn + MaxSnapshots)]] :
        /\ \A v \in 1..MaxSnapshots : f[v].id = SnapshotId(e, v)
        /\ \A v \in 1..(MaxSnapshots - 1) :
              f[v].created_on < f[v + 1].created_on}

\* The datastores the job may run over: the snapshots of every exploration.
RightsSnapshotStores ==
    LET Histories == UNION {SnapshotsOf(e) : e \in RightsExpIds}
    IN  {UNION {{f[e][v] : v \in 1..MaxSnapshots} : e \in RightsExpIds} :
            f \in {g \in [RightsExpIds -> Histories] :
                      \A e \in RightsExpIds : g[e] \in SnapshotsOf(e)}}

\* s.rfind(ch): the 0-based index of the last ch in s, -1 when there is none.
RECURSIVE rfind(_, _)
rfind(s, ch) ==
    IF Len(s) = 0 THEN -1
    ELSE IF s[Len(s)] = ch THEN Len(s) - 1
    ELSE rfind(SubSeq(s, 1, Len(s) - 1), ch)

\* s[:k] as Python slices: a negative k counts from the end.
SliceTo(s, k) ==
    IF k >= 0
    THEN SubSeq(s, 1, IF k < Len(s) THEN k ELSE Len(s))
    ELSE SubSeq(s, 1, IF Len(s) + k > 0 THEN Len(s) + k ELSE 0)

\* utils.get_time_in_millisecs(datetime_obj)
get_time_in_millisecs(created_on) == created_on * 1000

\* Mutant: the status of the snapshot is not looked at.
IsPublicSnapshotAnyStatus(item) == TRUE

\* item.content['status'] == rights_manager.ACTIVITY_STATUS_PUBLIC
IsPublicSnapshot(item) == item.content.status = ACTIVITY_STATUS_PUBLIC

\* ExplorationFirstPublishedOneOffJob.map(item): the pairs it yields.
ExplorationFirstPublishedOneOffJob_map(item) ==
    IF IsPublicSnapshot(item)
    THEN LET snapshot_id == item.id
         IN  <<<<SliceTo(snapshot_id, rfind(snapshot_id, "-")),
                 get_time_in_millisecs(item.created_on)>>>>
    ELSE <<>>

\* The job framework groups the yielded values by key and hands them to
\* reduce as strings.
Shuffle(groups, pairs) ==
    IF pairs = <<>> THEN groups
    ELSE LET key == pairs[1][1]
             value == str(pairs[1][2])
         IN  IF key \in DOMAIN groups
             THEN [groups EXCEPT ![key] = Append(@, value)]
             ELSE [k \in DOMAIN groups \cup {key} |->
                      IF k = key THEN <<value>> ELSE groups[k]]

\* min(values) of a non-empty list.
RECURSIVE min(_)
min(values) ==
    IF Len(values) = 1 THEN values[1]
    ELSE LET m == min(Tail(values))
         IN  IF m < values[1] THEN m ELSE values[1]

\* rights_manager.update_activity_first_published_msec(
\*     ACTIVITY_TYPE_EXPLORATION, exp_id, first_published_msec)
update_activity_first_published_msec(rights, exp_id, msec) ==
    [rights EXCEPT ![exp_id] = <<msec>>]

\* ExplorationFirstPublishedOneOffJob.reduce(exp_id, stringified values)
ExplorationFirstPublishedOneOffJob_reduce(rights, exp_id, stringified_commit_times_msecs) ==
    LET commit_times_msecs ==
            [i \in 1..Len(stringified_commit_times_msecs) |->
                literal_eval(stringified_commit_times_msecs[i])]
        first_published_msec_ == min(commit_times_msecs)
    IN  update_activity_first_published_msec(rights, exp_id, first_published_msec_)

\* The list l in the order given by the permutation order of its indices.
Listed(l, order) == [i \in 1..Len(l) |-> l[order[i]]]

FirstPublishedIdle ==
    /\ rights_snapshots = {}
    /\ mapped_snapshots = {}
    /\ shuffled = <<>>
    /\ reduced_keys = {}
    /\ first_published_msec = <<>>

\* The map step takes any snapshot it has not processed yet.
MapRightsSnapshot ==
    /\ \E item \in rights_snapshots :
          /\ item.id \notin mapped_snapshots
          /\ mapped_snapshots' = mapped_snapshots \cup {item.id}
          /\ shuffled' = Shuffle(shuffled, ExplorationFirstPublishedOneOffJob_map(item))
    /\ UNCHANGED <<rights_snapshots, reduced_keys, first_published_msec,
                   emailVars, calcVars, jobVars>>

\* After the map phase, reduce runs once for every key that has values; the
\* values of a key are listed in any order.
ReduceFirstPublished ==
    /\ \A item \in rights_snapshots : item.id \in mapped_snapshots
    /\ \E exp_id \in DOMAIN shuffled \ reduced_keys :
          \E order \in KeyOrders(1..Len(shuffled[exp_id])) :
             /\ first_published_msec' =
                    ExplorationFirstPublishedOneOffJob_reduce(
                        first_published_msec, exp_id,
                        Listed(shuffled[exp_id], order))
             /\ reduced_keys' = reduced_keys \cup {exp_id}
    /\ UNCHANGED <<rights_snapshots, mapped_snapshots, shuffled,
                   emailVars, calcVars, jobVars>>

(***************************************************************************)
(* Specifications: one per service                                         *)
(***************************************************************************)
EmailIdle ==
    /\ mailLog = <<>>
    /\ sentEmails = <<>>
    /\ errorLog = 0
    /\ emailCalls = 0
    /\ last = NoCall

InitEmail ==
    /\ EmailIdle
    /\ CalcIdle
    /\ JobsIdle
    /\ FirstPublishedIdle

NextEmail ==
    \/ CallSendEmail
    \/ CallSendPostSignupEmail
    \/ CallSendModeratorActionEmail

SpecEmail == InitEmail /\ [][NextEmail]_vars

InitCalc ==
    /\ \E answers \in AnswerBatches : state_answers = StateAnswersEntity(answers)
    /\ calc_output = NoOutput
    /\ EmailIdle
    /\ JobsIdle
    /\ FirstPublishedIdle

NextCalc ==
    \/ RunAnswerFrequencies
    \/ RunTop5AnswerFrequencies

SpecCalc == InitCalc /\ [][NextCalc]_vars

InitElements ==
    /\ \E answers \in SetAnswerBatches : state_answers = StateAnswersEntity(answers)
    /\ calc_output = NoOutput
    /\ EmailIdle
    /\ JobsIdle
    /\ FirstPublishedIdle

NextElements == RunFrequencyCommonlySubmittedElements

SpecElements == InitElements /\ [][NextElements]_vars

InitJobs ==
    /\ explorations \in [ExpIds -> ExplorationModels]
    /\ exp_updates = <<>>
    /\ job_errors = 0
    /\ job_calls = 0
    /\ last_map = NoMap
    /\ EmailIdle
    /\ CalcIdle
    /\ FirstPublishedIdle

NextJobs ==
    \/ RunValidityMap
    \/ RunMigrationMap

SpecJobs == InitJobs /\ [][NextJobs]_vars

InitFirstPublished ==
    /\ rights_snapshots \in RightsSnapshotStores
    /\ mapped_snapshots = {}
    /\ shuffled = <<>>
    /\ reduced_keys = {}
    /\ first_published_msec = [e \in RightsExpIds |-> <<>>]
    /\ EmailIdle
    /\ CalcIdle
    /\ JobsIdle

NextFirstPublished ==
    \/ MapRightsSnapshot
    \/ ReduceFirstPublished

SpecFirstPublished == InitFirstPublished /\ [][NextFirstPublished]_vars

(***************************************************************************)
(* Properties of the email manager (checked under SpecEmail)               *)
(***************************************************************************)
Called(op) == last.op = op

MailsUnchanged == mailLog = last.mailsBefore

RecordsUnchanged == sentEmails = last.sentBefore

NewMails == Len(mailLog) - Len(last.mailsBefore)

NewRecords == Len(sentEmails) - Len(last.sentBefore)

Raised == last.error # ""

LoggedOneError == errorLog = last.errorsBefore + 1

\* The sender each intent requires, as the claim lists them.
ClaimedSenderOk(intent, sender_id) ==
    \/ intent \in {"signup", "daily_batch"} /\ sender_id = "uid_system"
    \/ intent = "marketing" /\ sender_id \in AdminIds
    \/ /\ intent \in {"publicize_exploration", "unpublish_exploration",
                       "delete_exploration"}
       /\ sender_id \in ModeratorIds

\* Some field of the content still equals its placeholder default.
SomeFieldIsPlaceholder(value) ==
    \/ value.subject = "THIS IS A PLACEHOLDER."
    \/ value.html_body = _PLACEHOLDER_HTML_BODY

\* C1: a call of _send_email with an unrecognized intent, or with a sender
\* the intent's validator rejects, raises, makes no mail-delivery call and
\* creates no SentEmailRecord: the records are the same after as before.
C1_InvalidSendRaisesAndRecordsNothing ==
    (Called("_send_email") /\ ~ClaimedSenderOk(last.intent, last.sender_id))
        => /\ last.error \in {"InvalidIntent", "InvalidSender"}
           /\ MailsUnchanged
           /\ RecordsUnchanged

\* C1 witness: an invalid sender is refused while a record already exists.
C1_Witness ==
    /\ Called("_send_email")
    /\ last.intent = "marketing" /\ last.sender_id = "uid_mod"
    /\ last.error = "InvalidSender"
    /\ Len(sentEmails) = 1

TemplatedSend ==
    \/ Called("send_post_signup_email")
    \/ Called("send_moderator_action_email")
           /\ last.intent \in ModeratorActionIntents

\* C2 as stated: a templated send whose content still has a placeholder
\* field raises a configuration error and makes no mail call and no record.
C2_AsStated_PlaceholderRaises ==
    (TemplatedSend /\ SomeFieldIsPlaceholder(last.content))
        => /\ last.error = "ConfigNotSet"
           /\ MailsUnchanged
           /\ RecordsUnchanged

\* C2 amended: with a placeholder field left, send_moderator_action_email
\* raises the configuration error, while send_post_signup_email logs one
\* error and returns without raising; neither makes a mail-delivery call nor
\* creates a SentEmailRecord.
C2_PlaceholderBlocksSend ==
    (TemplatedSend /\ SomeFieldIsPlaceholder(last.content))
        => /\ MailsUnchanged
           /\ RecordsUnchanged
           /\ Called("send_moderator_action_email")
                  => last.error = "ConfigNotSet"
           /\ Called("send_post_signup_email")
                  => ~Raised /\ LoggedOneError

\* C2 witness: a signup send refused because only the body is a placeholder.
C2_Witness ==
    /\ Called("send_post_signup_email")
    /\ last.content.subject # "THIS IS A PLACEHOLDER."
    /\ last.content.html_body = _PLACEHOLDER_HTML_BODY
    /\ ~Raised
    /\ MailsUnchanged

\* C3: a call of _send_email with a valid intent and sender whose body the
\* sanitizer would change returns without raising, logs an error, makes no
\* mail-delivery call and creates no record; every mail-delivery call ever
\* made carries an HTML body the sanitizer leaves unchanged.
C3_AlteredBodyIsSkippedSilently ==
    /\ (/\ Called("_send_email")
        /\ ClaimedSenderOk(last.intent, last.sender_id)
        /\ clean(last.body) # last.body)
           => /\ ~Raised
              /\ LoggedOneError
              /\ MailsUnchanged
              /\ RecordsUnchanged
    /\ \A i \in 1..Len(mailLog) : clean(mailLog[i].html_body) = mailLog[i].html_body

\* C3 witness: a valid sender's body with a script tag is dropped.
C3_Witness ==
    /\ Called("_send_email")
    /\ ClaimedSenderOk(last.intent, last.sender_id)
    /\ \E i \in 1..Len(last.body) : last.body[i] = "<script>"
    /\ ~Raised
    /\ Len(mailLog) = 1

\* The record r carries what the mail call m and the last call were given.
RecordMatches(r, m) ==
    /\ r.recipient_id = last.recipient_id
    /\ r.recipient_email = m.recipient_email
    /\ r.sender_id = last.sender_id
    /\ r.sender_email = m.sender_email
    /\ r.intent = last.intent
    /\ r.subject = m.subject
    /\ r.html_body = m.html_body

IsPrefixOf(s, t) == Len(s) <= Len(t) /\ SubSeq(t, 1, Len(s)) = s

\* C4 as stated: no record when the mail call raises; every execution in
\* which the mail call succeeded (mail was delivered and no mail call
\* raised) creates exactly one record, with the mail's fields; existing
\* records are never changed or removed.
C4_AsStated_OneRecordPerDeliveredMail ==
    ~Called("none")
        => /\ last.error = "MailError" => RecordsUnchanged
           /\ (NewMails > 0 /\ last.error # "MailError")
                  => /\ NewRecords = 1
                     /\ RecordMatches(sentEmails[Len(sentEmails)],
                                      mailLog[Len(mailLog)])
           /\ IsPrefixOf(last.sentBefore, sentEmails)

\* C4 amended: a record is created only in an execution whose mail call
\* returned; when the mail call raises no record is created; an execution
\* whose mail call succeeds and whose transaction commits creates exactly one
\* record, with the recipient, sender, intent, subject and HTML body given
\* to the mail call; an execution whose transaction fails creates none;
\* existing records are never changed or removed.
C4_OneRecordPerCommittedSend ==
    ~Called("none")
        => /\ last.error = "MailError" => RecordsUnchanged
           /\ last.error = "TransactionFailed" => RecordsUnchanged
           /\ NewRecords > 0 => NewMails > 0
           /\ (NewMails > 0 /\ ~Raised)
                  => /\ NewRecords = 1
                     /\ RecordMatches(sentEmails[Len(sentEmails)],
                                      mailLog[Len(mailLog)])
           /\ IsPrefixOf(last.sentBefore, sentEmails)

\* C4 witness: a second send commits and the first send's record is kept.
C4_Witness ==
    /\ Called("_send_email")
    /\ ~Raised
    /\ Len(last.sentBefore) = 1
    /\ Len(sentEmails) = 2
    /\ sentEmails[1] = last.sentBefore[1]

\* C5: the send-and-record step does not partially apply: once the step is
\* over, either mail was delivered and exactly one record of the send
\* exists, or no record of it exists; a failed transaction leaves no record
\* even when the mail call had already succeeded.
C5_SendAndRecordIsAtomic ==
    ~Called("none")
        => /\ (NewMails > 0 /\ NewRecords = 1) \/ NewRecords = 0
           /\ last.error = "TransactionFailed" => NewRecords = 0

\* C5 witness: mail was delivered, twice, and the transaction then failed.
C5_Witness ==
    /\ last.error = "TransactionFailed"
    /\ NewMails = 2
    /\ NewRecords = 0

\* C6: send_moderator_action_email with a moderator-action intent whose
\* content is set, a moderator as sender, a body the sanitizer leaves
\* unchanged and no failure of mail delivery or of the transaction makes one
\* mail-delivery call to the recipient and one SentEmailRecord of the intent.
C6_ModeratorActionEmailIsSent ==
    (/\ Called("send_moderator_action_email")
     /\ last.intent \in ModeratorActionIntents
     /\ ~SomeFieldIsPlaceholder(last.content)
     /\ last.sender_id \in ModeratorIds
     /\ clean(last.body) = last.body
     /\ last.error \notin {"MailError", "TransactionFailed"})
        => /\ NewMails = 1
           /\ mailLog[Len(mailLog)].recipient_email = get_email_from_user_id(last.recipient_id)
           /\ NewRecords = 1
           /\ sentEmails[Len(sentEmails)].intent = last.intent

(***************************************************************************)
(* Properties of the answer calculations (checked under SpecCalc)          *)
(***************************************************************************)
Batch == state_answers.answers_list

Output == calc_output.calculation_output

Ran(calculation_id) == calc_output.calculation_id = calculation_id

\* The number of occurrences of answer a in the batch.
Occurrences(a) == Cardinality({i \in 1..Len(Batch) : Batch[i] = a})

\* The position at which answer a is first seen in the batch.
FirstSeen(a) ==
    CHOOSE i \in 1..Len(Batch) :
        Batch[i] = a /\ \A j \in 1..(i - 1) : Batch[j] # a

OutputAnswers == {Output[i].answer : i \in 1..Len(Output)}

RECURSIVE SumOfFrequencies(_)
SumOfFrequencies(out) ==
    IF out = <<>> THEN 0 ELSE Head(out).frequency + SumOfFrequencies(Tail(out))

\* Every pair names an answer of the batch with its number of occurrences,
\* and no answer is named twice.
PairsAreCounts ==
    /\ \A i \in 1..Len(Output) :
           /\ Output[i].answer \in SeqValues(Batch)
           /\ Output[i].frequency = Occurrences(Output[i].answer)
    /\ \A i, j \in 1..Len(Output) : Output[i].answer = Output[j].answer => i = j

DescendingFrequency ==
    \A i \in 1..(Len(Output) - 1) : Output[i].frequency >= Output[i + 1].frequency

\* Answer a comes before answer b in the order "higher frequency first,
\* equal frequencies in first-seen order".
BeforeInFirstSeenOrder(a, b) ==
    \/ Occurrences(a) > Occurrences(b)
    \/ Occurrences(a) = Occurrences(b) /\ FirstSeen(a) < FirstSeen(b)

\* C7 as stated: at most 5 pairs of an answer and its number of occurrences,
\* by descending frequency with ties in first-seen order, no omitted answer
\* before an included one in that order; the example batch
\* [a,a,a,b,b,c,d,e,f] yields [(a,3),(b,2),(c,1),(d,1),(e,1)].
C7_AsStated_Top5TiesInFirstSeenOrder ==
    Ran("Top5AnswerFrequencies")
        => /\ Len(Output) <= 5
           /\ PairsAreCounts
           /\ \A i, j \in 1..Len(Output) :
                  i < j => BeforeInFirstSeenOrder(Output[i].answer, Output[j].answer)
           /\ \A a \in SeqValues(Batch) \ OutputAnswers :
                  \A i \in 1..Len(Output) : ~BeforeInFirstSeenOrder(a, Output[i].answer)
           /\ Batch = ExampleBatch
                  => Output = <<[answer |-> "a", frequency |-> 3],
                                [answer |-> "b", frequency |-> 2],
                                [answer |-> "c", frequency |-> 1],
                                [answer |-> "d", frequency |-> 1],
                                [answer |-> "e", frequency |-> 1]>>

\* C7 amended: Top5AnswerFrequencies returns min(5, number of distinct
\* answers) pairs, each an answer of the batch with its number of
\* occurrences, no answer twice, by descending frequency, and no omitted
\* answer occurs more often than an included one; the order among answers of
\* equal frequency, and which of them are kept, is not determined (the
\* example batch yields (a,3),(b,2) and then three of c, d, e, f).
C7_Top5ByDescendingFrequency ==
    Ran("Top5AnswerFrequencies")
        => /\ Len(Output) <= 5
           /\ Len(Output) < 5 => OutputAnswers = SeqValues(Batch)
           /\ PairsAreCounts
           /\ DescendingFrequency
           /\ \A a \in SeqValues(Batch) \ OutputAnswers :
                  \A i \in 1..Len(Output) : Output[i].frequency >= Occurrences(a)
           /\ Batch = ExampleBatch
                  => /\ Output[1] = [answer |-> "a", frequency |-> 3]
                     /\ Output[2] = [answer |-> "b", frequency |-> 2]
                     /\ Len(Output) = 5

\* C7 witness: the example batch, with the ties listed as CPython 2 lists
\* the keys a..f of a dict (a, c, b, e, d, f): e comes before d.
C7_Witness ==
    /\ Ran("Top5AnswerFrequencies")
    /\ Batch = ExampleBatch
    /\ Output = <<[answer |-> "a", frequency |-> 3],
                  [answer |-> "b", frequency |-> 2],
                  [answer |-> "c", frequency |-> 1],
                  [answer |-> "e", frequency |-> 1],
                  [answer |-> "d", frequency |-> 1]>>

\* C8: AnswerFrequencies emits exactly one pair per distinct answer, with
\* its number of occurrences, without truncation: the frequencies sum to the
\* batch size, and an empty batch yields an empty output.
C8_FrequenciesCountEveryAnswer ==
    Ran("AnswerFrequencies")
        => /\ PairsAreCounts
           /\ OutputAnswers = SeqValues(Batch)
           /\ Len(Output) = Cardinality(SeqValues(Batch))
           /\ SumOfFrequencies(Output) = Len(Batch)
           /\ Batch = <<>> => Output = <<>>

\* C8 witness: more than five distinct answers, some repeated, all emitted.
C8_Witness ==
    /\ Ran("AnswerFrequencies")
    /\ Batch = ExampleBatch
    /\ Len(Output) = 6
    /\ SumOfFrequencies(Output) = 9

(***************************************************************************)
(* Properties of the commonly-submitted elements (checked under            *)
(* SpecElements)                                                           *)
(***************************************************************************)
\* The set that was stored as the string setstring.
SetOfAnswer(setstring) ==
    CHOOSE l \in AnswerSets : StringifiedSet(l) = setstring

\* The elements of the sets of the batch.
BatchElements == UNION {SeqValues(SetOfAnswer(Batch[i])) : i \in 1..Len(Batch)}

\* The number of sets of the batch that hold element e.
ElementOccurrences(e) ==
    Cardinality({i \in 1..Len(Batch) : e \in SeqValues(SetOfAnswer(Batch[i]))})

\* The output is at most ten (element, frequency) pairs of elements of the
\* batch with their counts, by descending frequency, and an element is left
\* out only when ten elements with counts at least as high are in.
IsTopTenOfElements ==
    /\ Len(Output) <= 10
    /\ \A i \in 1..Len(Output) :
           /\ Output[i].answer \in BatchElements
           /\ Output[i].frequency = ElementOccurrences(Output[i].answer)
    /\ \A i, j \in 1..Len(Output) : Output[i].answer = Output[j].answer => i = j
    /\ DescendingFrequency
    /\ \A e \in BatchElements \ OutputAnswers :
           /\ Len(Output) = 10
           /\ \A i \in 1..Len(Output) : ElementOccurrences(e) <= Output[i].frequency

\* C12: for a batch of stringified sets whose elements hold neither ', '
\* nor brackets, FrequencyCommonlySubmittedElements returns at most ten
\* (element, frequency) pairs of the elements of the sets with their counts
\* over the batch, by descending frequency, and no element left out has a
\* higher count than one that is in.
C12_ElementsOfTheSetsAreCounted ==
    Ran("FrequencyCommonlySubmittedElements") => IsTopTenOfElements

\* C12, for the batches in which no set is empty: the same property.
C12_NonEmptySetsAreCounted ==
    (/\ Ran("FrequencyCommonlySubmittedElements")
     /\ \A i \in 1..Len(Batch) : SetOfAnswer(Batch[i]) # <<>>)
    => IsTopTenOfElements

\* C12 witness: a batch holds an empty set, and the output lists the empty
\* string, which is an element of no set, with the number of empty sets.
C12_Witness ==
    /\ Ran("FrequencyCommonlySubmittedElements")
    /\ \E i \in 1..Len(Batch) : Batch[i] = <<"[", "]">>
    /\ BatchElements # {}
    /\ \E i \in 1..Len(Output) :
          /\ Output[i].answer = <<>>
          /\ Output[i].answer \notin BatchElements
          /\ Output[i].frequency =
                 Cardinality({j \in 1..Len(Batch) : Batch[j] = <<"[", "]">>})

\* C12, more than ten distinct elements: ten pairs come out, the element
\* left out is one of the two that were submitted once.
C12_WitnessTruncated ==
    /\ Ran("FrequencyCommonlySubmittedElements")
    /\ Cardinality(BatchElements) > 10
    /\ Len(Output) = 10
    /\ IsTopTenOfElements
    /\ <<"k">> \in OutputAnswers
    /\ <<"j">> \notin OutputAnswers

(***************************************************************************)
(* Properties of the one-off jobs (checked under SpecJobs)                 *)
(***************************************************************************)
MapRan(job) == last_map.job = job

\* The stored entity the last map step was given.
Item == last_map.storeBefore[last_map.exp_id]

NewUpdates == Len(exp_updates) - Len(last_map.updatesBefore)

NoWrite == explorations = last_map.storeBefore /\ NewUpdates = 0

\* The content fails the validation its publication status calls for:
\* the non-strict one when private, the strict one otherwise.
FailsItsValidation(item) ==
    \/ item.content = "invalid"
    \/ item.status # "private" /\ item.content # "valid"

IsIdMessagePair(p) ==
    /\ Len(p) = 2
    /\ p[1] = last_map.exp_id
    /\ p[2] \in {"fails non-strict validation", "fails strict validation"}

\* C9 as stated: an entity at the current states schema version gets no
\* write; an entity at an older version gets exactly one persisted update
\* and is then stored at the current version (stated here for the entities
\* that load).
C9_AsStated_OlderVersionIsAlwaysMigrated ==
    MapRan("ExplorationMigrationJobManager")
        => /\ Item.states_schema_version = MaxSchemaVersion => NoWrite
           /\ (Item.states_schema_version < MaxSchemaVersion /\ Item.loadable)
                  => /\ NewUpdates = 1
                     /\ explorations[last_map.exp_id].states_schema_version
                            = MaxSchemaVersion

\* C9 amended: an entity at the current version gets no write; an entity at
\* an older version that is not deleted, loads and passes non-strict
\* validation gets exactly one persisted update, of that entity alone, and
\* is then stored at the current version; an older entity that is deleted,
\* does not load or fails non-strict validation gets no write.
C9_MigrationWritesOnlyOutdatedValidEntities ==
    MapRan("ExplorationMigrationJobManager")
        => /\ Item.states_schema_version = MaxSchemaVersion => NoWrite
           /\ (/\ Item.states_schema_version < MaxSchemaVersion
               /\ ~Item.deleted /\ Item.loadable /\ Item.content # "invalid")
                  => /\ NewUpdates = 1
                     /\ exp_updates[Len(exp_updates)].exp_id = last_map.exp_id
                     /\ explorations[last_map.exp_id].states_schema_version
                            = MaxSchemaVersion
                     /\ \A other \in ExpIds \ {last_map.exp_id} :
                            explorations[other] = last_map.storeBefore[other]
           /\ (/\ Item.states_schema_version < MaxSchemaVersion
               /\ (Item.deleted \/ ~Item.loadable \/ Item.content = "invalid"))
                  => NoWrite

\* C9 witness: an outdated, valid entity has been migrated.
C9_Witness ==
    /\ MapRan("ExplorationMigrationJobManager")
    /\ Item.states_schema_version = 1
    /\ ~Item.deleted
    /\ NewUpdates = 1
    /\ explorations[last_map.exp_id].states_schema_version = MaxSchemaVersion

\* C10 as stated: the validity map never raises; every failure of loading
\* or of the validation is turned into an emitted (id, message) pair, a
\* valid or deleted exploration emits nothing, and only such pairs are
\* emitted.
C10_AsStated_ValidityMapNeverRaises ==
    MapRan("ExplorationValidityJobManager")
        => /\ last_map.raised = ""
           /\ (~Item.deleted /\ (~Item.loadable \/ FailsItsValidation(Item)))
                  => Len(last_map.emitted) = 1
           /\ (Item.deleted \/ (Item.loadable /\ ~FailsItsValidation(Item)))
                  => last_map.emitted = <<>>
           /\ \A i \in 1..Len(last_map.emitted) :
                  IsIdMessagePair(last_map.emitted[i])

\* C10 amended: for a stored exploration that loads, the validity map does
\* not raise: a failure of the strict (non-private) or non-strict (private)
\* validation is turned into one emitted (id, message) pair and a valid
\* exploration emits nothing; a deleted exploration emits nothing and raises
\* nothing; a failure of loading, which happens outside the try block,
\* propagates out of map and nothing is emitted; only (id, message) pairs
\* are emitted and nothing is written.
C10_ValidityMapReportsValidationFailures ==
    MapRan("ExplorationValidityJobManager")
        => /\ (Item.deleted \/ Item.loadable) => last_map.raised = ""
           /\ (~Item.deleted /\ Item.loadable /\ FailsItsValidation(Item))
                  => Len(last_map.emitted) = 1
           /\ (Item.deleted \/ (Item.loadable /\ ~FailsItsValidation(Item)))
                  => last_map.emitted = <<>>
           /\ (~Item.deleted /\ ~Item.loadable)
                  => last_map.raised = "LoadError" /\ last_map.emitted = <<>>
           /\ \A i \in 1..Len(last_map.emitted) :
                  IsIdMessagePair(last_map.emitted[i])
           /\ NoWrite

\* C10 witness: a public exploration that passes only the non-strict
\* validation is reported.
C10_Witness ==
    /\ MapRan("ExplorationValidityJobManager")
    /\ Item.status = "public" /\ Item.content = "lenient"
    /\ last_map.emitted = <<<<last_map.exp_id, "fails strict validation">>>>
    /\ last_map.raised = ""

\* C13: the migration map writes nothing and raises nothing for an entity
\* that is deleted, or that loads and fails the non-strict validation,
\* whatever its states schema version; the failed validation is logged once
\* and nothing is yielded.  What earlier steps persisted stays, and after a
\* logged failure the step of another, valid and outdated entity persists
\* its update.
C13_MigrationSkipsDeletedAndInvalidEntities ==
    MapRan("ExplorationMigrationJobManager")
        => /\ Item.deleted
                  => /\ NoWrite
                     /\ last_map.raised = ""
                     /\ last_map.emitted = <<>>
                     /\ job_errors = last_map.errorsBefore
           /\ (~Item.deleted /\ Item.loadable /\ validate(Item, FALSE) # "")
                  => /\ NoWrite
                     /\ last_map.raised = ""
                     /\ last_map.emitted = <<>>
                     /\ job_errors = last_map.errorsBefore + 1
           /\ (/\ last_map.errorsBefore > 0
               /\ ~Item.deleted /\ Item.loadable /\ validate(Item, FALSE) = ""
               /\ Item.states_schema_version < CURRENT_EXPLORATION_STATES_SCHEMA_VERSION)
                  => /\ last_map.raised = ""
                     /\ exp_updates = Append(last_map.updatesBefore,
                                             exp_updates[Len(exp_updates)])
                     /\ exp_updates[Len(exp_updates)].exp_id = last_map.exp_id
                     /\ explorations[last_map.exp_id].states_schema_version
                            = CURRENT_EXPLORATION_STATES_SCHEMA_VERSION

\* C13 witness: after another entity was migrated, an outdated entity has
\* failed the validation: the failure is logged, the entity is as it was and
\* the earlier update is still there.
C13_Witness ==
    /\ MapRan("ExplorationMigrationJobManager")
    /\ ~Item.deleted /\ Item.loadable /\ Item.content = "invalid"
    /\ Item.states_schema_version < CURRENT_EXPLORATION_STATES_SCHEMA_VERSION
    /\ last_map.raised = ""
    /\ job_errors = 1
    /\ Len(exp_updates) = 1
    /\ exp_updates[1].exp_id # last_map.exp_id
    /\ explorations[last_map.exp_id] = Item

\* C13, the other order: after an entity failed the validation, another
\* entity has been migrated.
C13_WitnessMigratedAfterFailure ==
    /\ MapRan("ExplorationMigrationJobManager")
    /\ last_map.errorsBefore = 1
    /\ Len(exp_updates) = 1
    /\ explorations[last_map.exp_id].states_schema_version
           = CURRENT_EXPLORATION_STATES_SCHEMA_VERSION
    /\ \E other \in ExpIds \ {last_map.exp_id} :
          /\ explorations[other].content = "invalid"
          /\ explorations[other].states_schema_version
                 < CURRENT_EXPLORATION_STATES_SCHEMA_VERSION

\* C13, a deleted entity: nothing is written, logged or raised.
C13_WitnessDeleted ==
    /\ MapRan("ExplorationMigrationJobManager")
    /\ Item.deleted
    /\ Item.content = "invalid"
    /\ Item.states_schema_version < CURRENT_EXPLORATION_STATES_SCHEMA_VERSION
    /\ NoWrite
    /\ job_errors = 0

(***************************************************************************)
(* Properties of the first-published job (checked under SpecFirstPublished)*)
(***************************************************************************)
\* The public-status snapshots of exploration e.
PublicSnapshotsOf(e) ==
    {s \in rights_snapshots :
        /\ s.content.status = ACTIVITY_STATUS_PUBLIC
        /\ \E v \in 1..MaxSnapshots : s.id = SnapshotId(e, v)}

\* The created-on times of these snapshots, in milliseconds.
PublicTimesMsec(e) == {s.created_on * 1000 : s \in PublicSnapshotsOf(e)}

Earliest(times) == CHOOSE t \in times : \A u \in times : t <= u

MapPhaseDone == \A s \in rights_snapshots : s.id \in mapped_snapshots

\* C11: whatever the order in which the snapshots were mapped and in which
\* the values of a key were listed, reduce has persisted for a content id
\* the earliest created-on time, in milliseconds, of its public-status
\* snapshots; reduce runs only for content ids that have such a snapshot,
\* and the other content ids keep the first-published time they had.
C11_FirstPublishedIsEarliestPublicSnapshot ==
    \A e \in RightsExpIds :
        /\ e \in reduced_keys =>
              /\ PublicSnapshotsOf(e) # {}
              /\ first_published_msec[e] = <<Earliest(PublicTimesMsec(e))>>
        /\ e \notin reduced_keys => first_published_msec[e] = <<>>
        /\ PublicSnapshotsOf(e) = {} => e \notin DOMAIN shuffled
        /\ (MapPhaseDone /\ PublicSnapshotsOf(e) # {}) => e \in DOMAIN shuffled

\* C11 witness: an exploration with two public snapshots whose later one
\* was mapped first has been reduced, and the other exploration has no
\* public snapshot.
C11_Witness ==
    \E e \in RightsExpIds :
        /\ e \in reduced_keys
        /\ Cardinality(PublicSnapshotsOf(e)) >= 2
        /\ Len(shuffled[e]) >= 2
        /\ literal_eval(shuffled[e][1]) > literal_eval(shuffled[e][2])
        /\ Len(shuffled[e][1]) > Len(shuffled[e][2])
        /\ first_published_msec[e] = <<literal_eval(shuffled[e][2])>>
        /\ \E d \in RightsExpIds \ {e} : PublicSnapshotsOf(d) = {}

=============================================================================
